---- MODULE Spec2Model ----
(***************************************************************************)
(* Model of the symbol tools of mcp-language-server:                       *)
(*   tools.ReadDefinition            (internal/tools/definition.go)        *)
(*   tools.FindReferences            (internal/tools, references)          *)
(*   lsp.initializeClangdLanguageServer and its two steps                  *)
(*                                   (internal/lsp/clangd.go)              *)
(*   the display ranges FindReferences computes for one file, on their     *)
(*   own                             (internal/tools, references)          *)
(* Every backend call (Symbol, OpenFile, References, GetFullDefinition),   *)
(* every file read and the directory walk is a step whose outcome the      *)
(* environment chooses.  A Go string is a TLA+ string; a block of output   *)
(* that the code builds with Sprintf and + is kept as the sequence of its  *)
(* fragments and flattened where the code joins the blocks.                *)
(***************************************************************************)
EXTENDS Integers, Sequences, FiniteSets, TLC

VARIABLES
    op,             \* the function being executed
    pc,             \* position in that function
    symbolName,     \* argument symbolName
    contextLines,   \* FindReferences: local contextLines
    symbolResult,   \* value returned by client.Symbol
    results,        \* value returned by symbolResult.Results()
    i,              \* index of the current element of `results` (1-based)
    openedLoc,      \* loc of the current match once its OpenFile succeeded
    definitions,    \* ReadDefinition: local definitions
    allReferences,  \* FindReferences: local allReferences
    refs,           \* FindReferences: refs of the current match
    uris,           \* FindReferences: sorted uris of the current match
    j,              \* FindReferences: index of the current uri (1-based)
    ret,            \* returned (string, error); err = Nil is Go's nil
    calls,          \* history: the backend calls issued so far, in order
    origin,         \* history: for each block appended, what it was built for
    cppFiles,       \* openCoreCppFiles: local cppFiles
    k,              \* openCoreCppFiles: index into cppFiles (1-based)
    fileCount,      \* openCoreCppFiles: local fileCount
    warnings,       \* warm-up: number of Warn log entries written
    inRefs,         \* range computation: argument fileRefs
    inTotalLines,   \* range computation: argument totalLines, len(lines)
    inContext,      \* range computation: argument contextLines
    outRanges       \* range computation: the display ranges, lineRanges

vars == <<op, pc, symbolName, contextLines, symbolResult, results, i, openedLoc,
          definitions, allReferences, refs, uris, j, ret, calls, origin,
          cppFiles, k, fileCount, warnings,
          inRefs, inTotalLines, inContext, outRanges>>

toolVars == <<symbolName, contextLines, symbolResult, results, i, openedLoc,
              definitions, allReferences, refs, uris, j, origin>>

warmVars == <<cppFiles, k, fileCount, warnings>>

rangeVars == <<inRefs, inTotalLines, inContext, outRanges>>

-----------------------------------------------------------------------------
(* Bounds of the model *)

MaxMatches == 2     \* longest list of matches the backend returns
MaxRefs == 2        \* longest list of locations a References request returns
MaxEntries == 4     \* most directory entries the workspace walk visits
MaxPoints == 3      \* most references of one file given to the range computation
MaxLines == 5       \* most lines of that file
MaxContext == 2     \* widest context given to the range computation

-----------------------------------------------------------------------------
(* Values *)

Nil == "<nil>"                          \* the nil error
BackendErr == "backend error"           \* err.Error() of a failed backend call
ReadErr == "open: no such file"         \* err.Error() of a failed os.ReadFile
WalkErr == "walk error"                 \* err.Error() of a failed filepath.Walk

UriA == "file:///a.cpp"
UriB == "file:///b.cpp"
URIs == {UriA, UriB}

Queries == {"foo", "fo"}

Shapes == {"SymbolInformation", "WorkspaceSymbol", "Other"}

\* The matches the backend may return (symbol.GetName(), symbol.GetLocation(),
\* and Kind / ContainerName of the two richer shapes).
Match(shape, name, container, uri, line) ==
    [shape |-> shape, name |-> name, containerName |-> container,
     kind |-> "Function",
     loc |-> [uri |-> uri, line |-> line, character |-> 0]]

MatchUniverse ==
    { Match("SymbolInformation", "foo", "NS", UriA, 0),
      Match("WorkspaceSymbol", "foo", "", UriB, 1),
      Match("Other", "foo", "", UriA, 1) }

\* The locations a References request may return.
Loc(uri, line) == [uri |-> uri, line |-> line, character |-> 0]
LocUniverse == { Loc(UriA, 0), Loc(UriB, 1) }

SeqsUpTo(S, n) == UNION { [1..m -> S] : m \in 0..n }

\* the lists of at most n elements of S that name no element twice
DistinctSeqsUpTo(S, n) ==
    { q \in SeqsUpTo(S, n) :
        \A a, b \in 1..Len(q) : a # b => q[a] # q[b] }

-----------------------------------------------------------------------------
(* Strings *)

Digits == <<"0", "1", "2", "3", "4", "5", "6", "7", "8", "9">>

\* fmt's %d of a non-negative int
RECURSIVE Itoa(_)
Itoa(n) == IF n < 10 THEN Digits[n + 1]
           ELSE Itoa(n \div 10) \o Digits[(n % 10) + 1]

\* the concatenation of the fragments of a block
RECURSIVE Flat(_)
Flat(frags) == IF frags = <<>> THEN ""
               ELSE Head(frags) \o Flat(Tail(frags))

\* strings.Join(blocks, sep), each block given by its fragments
RECURSIVE JoinBlocks(_, _)
JoinBlocks(blocks, sep) ==
    IF blocks = <<>> THEN ""
    ELSE IF Len(blocks) = 1 THEN Flat(blocks[1])
    ELSE Flat(blocks[1]) \o sep \o JoinBlocks(Tail(blocks), sep)

\* strings.TrimPrefix(uri, "file://") and DocumentUri.Path() on the URIs of
\* the model
TrimFilePrefix(uri) == CASE uri = UriA -> "/a.cpp"
                         [] uri = UriB -> "/b.cpp"
                         [] OTHER -> uri

\* the order sort.Strings puts the URIs of the model in
UriRank(uri) == CASE uri = UriA -> 1
                  [] uri = UriB -> 2
                  [] OTHER -> 3

-----------------------------------------------------------------------------
(* The file system and the helpers of package tools that the two functions  *)
(* call (utilities of the repository; modelled from their contracts)        *)

\* strings.Split(content, "\n") of the file at a path
FileLines(path) == CASE path = "/a.cpp" -> <<"a1", "a2", "a3">>
                     [] path = "/b.cpp" -> <<"b1", "b2">>
                     [] OTHER -> <<"">>

Max(a, b) == IF a >= b THEN a ELSE b
Min(a, b) == IF a <= b THEN a ELSE b

\* GetFullDefinition(ctx, client, loc) when the backend answers: the text of
\* the enclosing definition (from the symbol's line to the end of the file)
\* and its expanded location
GetFullDefinition(loc) ==
    LET lines == FileLines(TrimFilePrefix(loc.uri))
        first == Min(loc.line + 1, Len(lines))
    IN [text |-> SubSeq(lines, first, Len(lines)),
        loc |-> [uri |-> loc.uri,
                 start |-> [line |-> first - 1, character |-> 0],
                 end |-> [line |-> Len(lines) - 1, character |-> 1]]]

\* addLineNumbers(text, startLine): every line prefixed with its line number
RECURSIVE addLineNumbers(_, _)
addLineNumbers(text, startLine) ==
    IF text = <<>> THEN <<>>
    ELSE <<Itoa(startLine) \o "|" \o Head(text) \o "\n">>
         \o addLineNumbers(Tail(text), startLine + 1)

\* the raw window of one reference: [L - context, L + context] clamped to
\* [1, totalLines], L the 1-based line of the reference
Window(ref, totalLines, context) ==
    [startLine |-> Max(1, (ref.line + 1) - context),
     endLine |-> Min(totalLines, (ref.line + 1) + context)]

\* insertion of a window into a list sorted by start line
RECURSIVE InsertByStart(_, _)
InsertByStart(w, sorted) ==
    IF sorted = <<>> THEN <<w>>
    ELSE IF w.startLine <= Head(sorted).startLine THEN <<w>> \o sorted
    ELSE <<Head(sorted)>> \o InsertByStart(w, Tail(sorted))

\* a variant that leaves the windows in the order of the references
SortByStartKeepsOrder(ws) == ws

\* the windows sorted by start line
RECURSIVE SortByStart(_)
SortByStart(ws) ==
    IF ws = <<>> THEN <<>> ELSE InsertByStart(Head(ws), SortByStart(Tail(ws)))

\* greedy merge of windows sorted by start line: the next window joins the
\* current one when it starts at or before the current end + 1
RECURSIVE MergeSorted(_, _)
MergeSorted(merged, rest) ==
    IF rest = <<>> THEN merged
    ELSE IF merged = <<>> THEN MergeSorted(<<Head(rest)>>, Tail(rest))
    ELSE LET cur == merged[Len(merged)]
             nxt == Head(rest)
         IN IF nxt.startLine <= cur.endLine + 1
            THEN MergeSorted(
                   [merged EXCEPT ![Len(merged)] =
                       [startLine |-> cur.startLine,
                        endLine |-> Max(cur.endLine, nxt.endLine)]],
                   Tail(rest))
            ELSE MergeSorted(Append(merged, nxt), Tail(rest))

\* GetLineRangesToDisplay followed by ConvertLinesToRanges: the display
\* ranges of the references of one file.  err is the error the first of the
\* two returns; the range computation has no failure of its own.
GetLineRangesToDisplay(fileRefs, totalLines, context) ==
    [err |-> Nil,
     ranges |-> MergeSorted(<<>>,
                  SortByStart([n \in 1..Len(fileRefs) |->
                                 Window(fileRefs[n], totalLines, context)]))]

\* FormatLinesWithRanges(lines, lineRanges): the lines of every range, each
\* prefixed with its absolute line number
RECURSIVE FormatRange(_, _, _)
FormatRange(lines, from, to) ==
    IF from > to THEN <<>>
    ELSE <<Itoa(from) \o "|" \o lines[from] \o "\n">>
         \o FormatRange(lines, from + 1, to)

RECURSIVE FormatLinesWithRanges(_, _)
FormatLinesWithRanges(lines, lineRanges) ==
    IF lineRanges = <<>> THEN <<>>
    ELSE FormatRange(lines, Head(lineRanges).startLine, Head(lineRanges).endLine)
         \o FormatLinesWithRanges(lines, Tail(lineRanges))

-----------------------------------------------------------------------------
(* The backend's answers *)

\* what client.Symbol returns on success: a result set that parses to a list
\* of matches (the backend lists a symbol once), or a malformed one
SymbolResults ==
    [malformed : {FALSE}, items : DistinctSeqsUpTo(MatchUniverse, MaxMatches)]
    \cup [malformed : {TRUE}, items : {<<>>}]

NoResult == [malformed |-> FALSE, items |-> <<>>]

\* an entry of the history of calls: the function, its argument, whether it
\* succeeded, the index of the match it was issued for (0: none) and, for a
\* References request, the locations returned, listed file by file
Call(fn, arg, ok, at, res) ==
    [fn |-> fn, arg |-> arg, ok |-> ok, at |-> at, res |-> res]

\* where a block comes from: the index of the match, the file, and whether
\* the file could be read
Origin(at, uri, readOk) == [at |-> at, uri |-> uri, readOk |-> readOk]

\* part_000 17
DefaultContextLines == 5

Ret(str, err) == [str |-> str, err |-> err]
NotReturned == [str |-> "", err |-> "(running)"]

-----------------------------------------------------------------------------
(* Initial states *)

InitCommon(start) ==
    /\ pc = start
    /\ contextLines = DefaultContextLines
    /\ symbolResult = NoResult
    /\ results = <<>>
    /\ i = 1
    /\ openedLoc = <<>>
    /\ definitions = <<>>
    /\ allReferences = <<>>
    /\ refs = <<>>
    /\ uris = <<>>
    /\ j = 1
    /\ ret = NotReturned
    /\ calls = <<>>
    /\ origin = <<>>
    /\ cppFiles = <<>>
    /\ k = 1
    /\ fileCount = 0
    /\ warnings = 0

\* the range computation has not been entered
InitRangeVars ==
    /\ inRefs = <<>>
    /\ inTotalLines = 0
    /\ inContext = 0
    /\ outRanges = <<>>

-----------------------------------------------------------------------------
(* ReadDefinition *)

\* definition.go 16-18: what is returned when the symbol query fails
RD_SymbolFailed == Ret("", "failed to fetch symbol: " \o BackendErr)

\* a variant that drops the parse error
RD_ParseFailedNil == Ret("", Nil)

\* definition.go 21-23: what is returned when the result set does not parse
RD_ParseFailed == Ret("", "failed to parse results: " \o "malformed")

\* definition.go 72-75: after a failed OpenFile the loop goes on with the
\* next match and nothing is returned yet
RD_OpenFailed(r) == [pc |-> "Loop", ret |-> r]

\* a variant that stays on the match it has just dealt with
RD_SameMatch(n) == n

\* definition.go 26: the step of the loop over the matches, taken at every
\* continue and at the end of the body
RD_NextMatch(n) == n + 1

\* definition.go 13-18: the symbol query
RD_Symbol ==
    /\ op = "ReadDefinition" /\ pc = "Symbol"
    /\ \/ /\ calls' = Append(calls, Call("Symbol", symbolName, FALSE, 0, <<>>))
          /\ ret' = RD_SymbolFailed
          /\ pc' = "done"
          /\ UNCHANGED symbolResult
       \/ \E sr \in SymbolResults :
             /\ calls' = Append(calls, Call("Symbol", symbolName, TRUE, 0, <<>>))
             /\ symbolResult' = sr
             /\ pc' = "Results"
             /\ UNCHANGED ret
    /\ UNCHANGED <<op, symbolName, contextLines, results, i, openedLoc,
                   definitions, allReferences, refs, uris, j>>
    /\ UNCHANGED origin
    /\ UNCHANGED warmVars
    /\ UNCHANGED rangeVars

\* definition.go 20-25: parsing the result set
RD_Results ==
    /\ op = "ReadDefinition" /\ pc = "Results"
    /\ IF symbolResult.malformed
       THEN /\ ret' = RD_ParseFailed
            /\ pc' = "done"
            /\ UNCHANGED results
       ELSE /\ results' = symbolResult.items
            /\ pc' = "Loop"
            /\ UNCHANGED ret
    /\ UNCHANGED <<op, symbolName, contextLines, symbolResult, i, openedLoc,
                   definitions, allReferences, refs, uris, j, calls>>
    /\ UNCHANGED origin
    /\ UNCHANGED warmVars
    /\ UNCHANGED rangeVars

\* a variant whose default case has no test on the name
RD_AcceptsAnyName(symbol, query) == TRUE

\* definition.go 34-55: the switch on the shape of the match; TRUE when the
\* iteration continues past it
RD_Accepts(symbol, query) ==
    CASE symbol.shape = "SymbolInformation" -> TRUE
      [] symbol.shape = "WorkspaceSymbol" -> TRUE
      [] OTHER -> symbol.name = query

\* definition.go 34-55: the Kind and Container Name lines of the block
RD_Kind(symbol) ==
    CASE symbol.shape = "SymbolInformation" -> "Kind: " \o symbol.kind \o "\n"
      [] symbol.shape = "WorkspaceSymbol" ->
            IF symbol.containerName # "" THEN "Kind: " \o symbol.kind \o "\n"
            ELSE ""
      [] OTHER -> ""

RD_Container(symbol) ==
    CASE symbol.shape \in {"SymbolInformation", "WorkspaceSymbol"} ->
            IF symbol.containerName # ""
            THEN "Container Name: " \o symbol.containerName \o "\n"
            ELSE ""
      [] OTHER -> ""

\* definition.go 26, 50-54: a match of the fallback shape with another name
\* is passed over
RD_Discard ==
    /\ op = "ReadDefinition" /\ pc = "Loop"
    /\ i <= Len(results)
    /\ ~RD_Accepts(results[i], symbolName)
    /\ i' = RD_NextMatch(i)
    /\ UNCHANGED <<op, pc, symbolName, contextLines, symbolResult, results,
                   openedLoc, definitions, allReferences, refs, uris, j, ret,
                   calls>>
    /\ UNCHANGED origin
    /\ UNCHANGED warmVars
    /\ UNCHANGED rangeVars

\* definition.go 26-75: an accepted match; its file is opened
RD_OpenFile ==
    /\ op = "ReadDefinition" /\ pc = "Loop"
    /\ i <= Len(results)
    /\ RD_Accepts(results[i], symbolName)
    /\ LET loc == results[i].loc
       IN \/ /\ calls' = Append(calls,
                           Call("OpenFile", TrimFilePrefix(loc.uri), FALSE, i, <<>>))
             /\ i' = RD_NextMatch(i)
             /\ pc' = RD_OpenFailed(ret).pc
             /\ ret' = RD_OpenFailed(ret).ret
             /\ UNCHANGED openedLoc
          \/ /\ calls' = Append(calls,
                           Call("OpenFile", TrimFilePrefix(loc.uri), TRUE, i, <<>>))
             /\ openedLoc' = loc
             /\ pc' = "GetFullDefinition"
             /\ UNCHANGED <<i, ret>>
    /\ UNCHANGED <<op, symbolName, contextLines, symbolResult, results,
                   definitions, allReferences, refs, uris, j>>
    /\ UNCHANGED origin
    /\ UNCHANGED warmVars
    /\ UNCHANGED rangeVars

\* definition.go 77-100: the formatted block of a match
RD_Block(symbol, def) ==
    <<"---\n\n",
      "Symbol: " \o symbol.name \o "\n",
      "File: " \o TrimFilePrefix(def.loc.uri) \o "\n",
      RD_Kind(symbol),
      RD_Container(symbol),
      "Range: L" \o Itoa(def.loc.start.line + 1)
         \o ":C" \o Itoa(def.loc.start.character + 1)
         \o " - L" \o Itoa(def.loc.end.line + 1)
         \o ":C" \o Itoa(def.loc.end.character + 1) \o "\n\n">>
    \o addLineNumbers(def.text, def.loc.start.line + 1)
    \o <<"\n">>

\* a variant that keeps the banner and the location lines built before the
\* error is tested
RD_DefinitionFailedKeepsHeader(defs, symbol) ==
    Append(defs, <<"---\n\n", "Symbol: " \o symbol.name \o "\n">>)

\* definition.go 93-96: the definitions after a failed GetFullDefinition for
\* the match `symbol`
RD_DefinitionFailed(defs, symbol) == defs

\* definition.go 77-101: the definition of the match is fetched
RD_GetFullDefinition ==
    /\ op = "ReadDefinition" /\ pc = "GetFullDefinition"
    /\ \/ /\ calls' = Append(calls, Call("GetFullDefinition", openedLoc, FALSE, i, <<>>))
          /\ definitions' = RD_DefinitionFailed(definitions, results[i])
          /\ UNCHANGED origin
       \/ /\ calls' = Append(calls, Call("GetFullDefinition", openedLoc, TRUE, i, <<>>))
          /\ definitions' = Append(definitions,
                               RD_Block(results[i], GetFullDefinition(openedLoc)))
          /\ origin' = Append(origin, Origin(i, openedLoc.uri, TRUE))
    /\ i' = RD_NextMatch(i)
    /\ openedLoc' = <<>>
    /\ pc' = "Loop"
    /\ UNCHANGED <<op, symbolName, contextLines, symbolResult, results,
                   allReferences, refs, uris, j, ret>>
    /\ UNCHANGED warmVars
    /\ UNCHANGED rangeVars

\* a variant without the sentinel for an empty list
RD_ResultNoSentinel(defs, query) == Ret(JoinBlocks(defs, ""), Nil)

\* definition.go 103-107: the value returned after the loop
RD_Result(defs, query) ==
    IF Len(defs) = 0 THEN Ret(query \o " not found", Nil)
    ELSE Ret(JoinBlocks(defs, ""), Nil)

RD_Return ==
    /\ op = "ReadDefinition" /\ pc = "Loop"
    /\ i > Len(results)
    /\ ret' = RD_Result(definitions, symbolName)
    /\ pc' = "done"
    /\ UNCHANGED <<op, symbolName, contextLines, symbolResult, results, i,
                   openedLoc, definitions, allReferences, refs, uris, j, calls>>
    /\ UNCHANGED origin
    /\ UNCHANGED warmVars
    /\ UNCHANGED rangeVars

InitRD ==
    /\ op = "ReadDefinition"
    /\ symbolName \in Queries
    /\ InitCommon("Symbol")
    /\ InitRangeVars

NextRD ==
    \/ RD_Symbol
    \/ RD_Results
    \/ RD_Discard
    \/ RD_OpenFile
    \/ RD_GetFullDefinition
    \/ RD_Return

SpecRD == InitRD /\ [][NextRD]_vars

-----------------------------------------------------------------------------
(* FindReferences *)

\* the values of LSP_CONTEXT_LINES the environment may hold ("" is unset)
EnvValues == {"", "0", "-1", "abc"}

\* strconv.Atoi on the values above
Atoi(str) == CASE str = "0" -> [val |-> 0, err |-> Nil]
               [] str = "-1" -> [val |-> -1, err |-> Nil]
               [] OTHER -> [val |-> 0, err |-> "invalid syntax"]

\* part_000 17-22: the context width
ContextLinesFrom(envLines) ==
    IF envLines # "" /\ Atoi(envLines).err = Nil /\ Atoi(envLines).val >= 0
    THEN Atoi(envLines).val
    ELSE DefaultContextLines

\* part_000 28-30: what is returned when the symbol query fails
FR_SymbolFailed == Ret("", "failed to fetch symbol: " \o BackendErr)

\* part_000 33-35: what is returned when the result set does not parse
FR_ParseFailed == Ret("", "failed to parse results: " \o "malformed")

\* a variant that returns the error of OpenFile
FR_OpenFailedAborts(r) ==
    [pc |-> "done", ret |-> Ret("", "failed to open file: " \o BackendErr)]

\* part_000 67-70: after a failed OpenFile the loop goes on with the next
\* match and nothing is returned yet
FR_OpenFailed(r) == [pc |-> "Loop", ret |-> r]

\* a variant that hands back the blocks collected so far with the error
FR_ReferencesFailedPartial(all) ==
    Ret(JoinBlocks(all, "\n"), "failed to get references: " \o BackendErr)

\* part_000 72-74: what is returned when the references request fails, the
\* blocks collected so far being `all`
FR_ReferencesFailed(all) == Ret("", "failed to get references: " \o BackendErr)

\* a variant that stays on the match it has just dealt with
FR_SameMatch(n) == n

\* part_000 38: the step of the loop over the matches, taken at every
\* continue and at the end of the body
FR_NextMatch(n) == n + 1

\* part_000 16-30: the context width and the symbol query
FR_Symbol ==
    /\ op = "FindReferences" /\ pc = "Symbol"
    /\ \E envLines \in EnvValues : contextLines' = ContextLinesFrom(envLines)
    /\ \/ /\ calls' = Append(calls, Call("Symbol", symbolName, FALSE, 0, <<>>))
          /\ ret' = FR_SymbolFailed
          /\ pc' = "done"
          /\ UNCHANGED symbolResult
       \/ \E sr \in SymbolResults :
             /\ calls' = Append(calls, Call("Symbol", symbolName, TRUE, 0, <<>>))
             /\ symbolResult' = sr
             /\ pc' = "Results"
             /\ UNCHANGED ret
    /\ UNCHANGED <<op, symbolName, results, i, openedLoc,
                   definitions, allReferences, refs, uris, j>>
    /\ UNCHANGED origin
    /\ UNCHANGED warmVars
    /\ UNCHANGED rangeVars

\* part_000 32-37: parsing the result set
FR_Results ==
    /\ op = "FindReferences" /\ pc = "Results"
    /\ IF symbolResult.malformed
       THEN /\ ret' = FR_ParseFailed
            /\ pc' = "done"
            /\ UNCHANGED results
       ELSE /\ results' = symbolResult.items
            /\ pc' = "Loop"
            /\ UNCHANGED ret
    /\ UNCHANGED <<op, symbolName, contextLines, symbolResult, i, openedLoc,
                   definitions, allReferences, refs, uris, j, calls>>
    /\ UNCHANGED origin
    /\ UNCHANGED warmVars
    /\ UNCHANGED rangeVars

\* part_000 38-51: the matches the loop body goes on with (all of them: the
\* loop has no test on the shape or the name of the match)
FR_Accepts(symbol, query) == TRUE

\* part_000 38-70: the file of the match is opened
FR_OpenFile ==
    /\ op = "FindReferences" /\ pc = "Loop"
    /\ i <= Len(results)
    /\ FR_Accepts(results[i], symbolName)
    /\ LET loc == results[i].loc
       IN \/ /\ calls' = Append(calls,
                           Call("OpenFile", TrimFilePrefix(loc.uri), FALSE, i, <<>>))
             /\ i' = FR_NextMatch(i)
             /\ pc' = FR_OpenFailed(ret).pc
             /\ ret' = FR_OpenFailed(ret).ret
             /\ UNCHANGED openedLoc
          \/ /\ calls' = Append(calls,
                           Call("OpenFile", TrimFilePrefix(loc.uri), TRUE, i, <<>>))
             /\ openedLoc' = loc
             /\ pc' = "References"
             /\ UNCHANGED <<i, ret>>
    /\ UNCHANGED <<op, symbolName, contextLines, symbolResult, results,
                   definitions, allReferences, refs, uris, j>>
    /\ UNCHANGED origin
    /\ UNCHANGED warmVars
    /\ UNCHANGED rangeVars

\* a variant that asks for the declaration as well
RefsParamsWithDeclaration(loc) ==
    [uri |-> loc.uri,
     position |-> [line |-> loc.line, character |-> loc.character],
     includeDeclaration |-> TRUE]

\* part_000 54-64: the parameters of the references request
RefsParams(loc) ==
    [uri |-> loc.uri,
     position |-> [line |-> loc.line, character |-> loc.character],
     includeDeclaration |-> FALSE]

\* a variant that keeps only the last reference of a file (the map entry
\* assigned instead of appended to)
RECURSIVE RefsOfFileLast(_, _)
RefsOfFileLast(rs, uri) ==
    IF rs = <<>> THEN <<>>
    ELSE IF Head(rs).uri = uri /\ RefsOfFileLast(Tail(rs), uri) = <<>>
         THEN <<Head(rs)>>
    ELSE RefsOfFileLast(Tail(rs), uri)

\* part_000 77-80: refsByFile[uri], the references in one file, in the order
\* the backend returned them
RECURSIVE RefsOfFile(_, _)
RefsOfFile(rs, uri) ==
    IF rs = <<>> THEN <<>>
    ELSE IF Head(rs).uri = uri THEN <<Head(rs)>> \o RefsOfFile(Tail(rs), uri)
    ELSE RefsOfFile(Tail(rs), uri)

\* a variant that lists the keys of refsByFile in descending order
RECURSIVE SortUrisDescending(_)
SortUrisDescending(S) ==
    IF S = {} THEN <<>>
    ELSE LET greatest == CHOOSE u \in S : \A v \in S : UriRank(u) >= UriRank(v)
         IN <<greatest>> \o SortUrisDescending(S \ {greatest})

\* part_000 83-87: the keys of refsByFile, sorted
RECURSIVE SortUris(_)
SortUris(S) ==
    IF S = {} THEN <<>>
    ELSE LET least == CHOOSE u \in S : \A v \in S : UriRank(u) <= UriRank(v)
         IN <<least>> \o SortUris(S \ {least})

SortedUris(rs) == SortUris({ rs[n].uri : n \in 1..Len(rs) })

\* the locations of a response listed file by file (for the history)
ByFile(rs) ==
    SelectSeq(rs, LAMBDA r : r.uri = UriA) \o SelectSeq(rs, LAMBDA r : r.uri = UriB)

\* part_000 71-93: the references request of the match; its failure ends the
\* call
FR_References ==
    /\ op = "FindReferences" /\ pc = "References"
    /\ \/ /\ calls' = Append(calls,
                        Call("References", RefsParams(openedLoc), FALSE, i, <<>>))
          /\ ret' = FR_ReferencesFailed(allReferences)
          /\ pc' = "done"
          /\ UNCHANGED <<refs, uris, j, i, openedLoc>>
       \/ \E rs \in SeqsUpTo(LocUniverse, MaxRefs) :
             /\ calls' = Append(calls,
                           Call("References", RefsParams(openedLoc), TRUE, i, ByFile(rs)))
             /\ IF SortedUris(rs) = <<>>
                THEN /\ i' = FR_NextMatch(i)
                     /\ pc' = "Loop"
                     /\ openedLoc' = <<>>
                     /\ UNCHANGED <<refs, uris, j>>
                ELSE /\ refs' = rs
                     /\ uris' = SortedUris(rs)
                     /\ j' = 1
                     /\ pc' = "File"
                     /\ UNCHANGED <<i, openedLoc>>
             /\ UNCHANGED ret
    /\ UNCHANGED <<op, symbolName, contextLines, symbolResult, results,
                   definitions, allReferences>>
    /\ UNCHANGED origin
    /\ UNCHANGED warmVars
    /\ UNCHANGED rangeVars

\* part_000 96-99: the header of the block of one file
FileInfo(filePath, fileRefs) ==
    <<"---\n\n", filePath, "\nReferences in File: ", Itoa(Len(fileRefs)), "\n">>

\* part_000 113-118 and 133: the locations of the references of one file
RECURSIVE LocStrings(_)
LocStrings(fileRefs) ==
    IF fileRefs = <<>> THEN ""
    ELSE "L" \o Itoa(Head(fileRefs).line + 1)
         \o ":C" \o Itoa(Head(fileRefs).character + 1)
         \o (IF Len(fileRefs) > 1 THEN ", " ELSE "")
         \o LocStrings(Tail(fileRefs))

\* a variant without the header of the file
ReadErrorBlockNoHeader(filePath, fileRefs) == <<"\nError reading file: ", ReadErr>>

\* part_000 105: the block of a file that could not be read
ReadErrorBlock(filePath, fileRefs) ==
    FileInfo(filePath, fileRefs) \o <<"\nError reading file: ", ReadErr>>

\* part_000 109-138: the block of a file that was read
FileBlock(filePath, fileRefs, lines, lineRanges) ==
    FileInfo(filePath, fileRefs)
    \o (IF Len(fileRefs) > 0
        THEN <<"At: " \o LocStrings(fileRefs) \o "\n">> ELSE <<>>)
    \o <<"\n">> \o FormatLinesWithRanges(lines, lineRanges)

\* part_000 90-139: one file of the current match
FR_File ==
    /\ op = "FindReferences" /\ pc = "File"
    /\ j <= Len(uris)
    /\ LET uri == uris[j]
           fileRefs == RefsOfFile(refs, uri)
           filePath == TrimFilePrefix(uri)
           lines == FileLines(filePath)
           shown == GetLineRangesToDisplay(fileRefs, Len(lines), contextLines)
       IN \/ /\ allReferences' =
                   Append(allReferences, ReadErrorBlock(filePath, fileRefs))
             /\ origin' = Append(origin, Origin(i, uri, FALSE))
          \/ IF shown.err # Nil
             THEN UNCHANGED <<allReferences, origin>>
             ELSE /\ allReferences' =
                       Append(allReferences,
                              FileBlock(filePath, fileRefs, lines, shown.ranges))
                  /\ origin' = Append(origin, Origin(i, uri, TRUE))
    /\ IF j < Len(uris)
       THEN /\ j' = j + 1
            /\ UNCHANGED <<pc, i, refs, uris, openedLoc>>
       ELSE /\ i' = FR_NextMatch(i)
            /\ pc' = "Loop"
            /\ refs' = <<>>
            /\ uris' = <<>>
            /\ j' = 1
            /\ openedLoc' = <<>>
    /\ UNCHANGED <<op, symbolName, contextLines, symbolResult, results,
                   definitions, ret, calls>>
    /\ UNCHANGED warmVars
    /\ UNCHANGED rangeVars

\* a variant that reports an empty list as an error
FR_ResultEmptyIsError(all, query) ==
    IF Len(all) = 0 THEN Ret("", "no references found for symbol: " \o query)
    ELSE Ret(JoinBlocks(all, "\n"), Nil)

\* part_000 142-146: the value returned after the loop
FR_Result(all, query) ==
    IF Len(all) = 0 THEN Ret("No references found for symbol: " \o query, Nil)
    ELSE Ret(JoinBlocks(all, "\n"), Nil)

FR_Return ==
    /\ op = "FindReferences" /\ pc = "Loop"
    /\ i > Len(results)
    /\ ret' = FR_Result(allReferences, symbolName)
    /\ pc' = "done"
    /\ UNCHANGED <<op, symbolName, contextLines, symbolResult, results, i,
                   openedLoc, definitions, allReferences, refs, uris, j, calls>>
    /\ UNCHANGED origin
    /\ UNCHANGED warmVars
    /\ UNCHANGED rangeVars

InitFR ==
    /\ op = "FindReferences"
    /\ symbolName \in Queries
    /\ InitCommon("Symbol")
    /\ InitRangeVars

NextFR ==
    \/ FR_Symbol
    \/ FR_Results
    \/ FR_OpenFile
    \/ FR_References
    \/ FR_File
    \/ FR_Return

SpecFR == InitFR /\ [][NextFR]_vars

-----------------------------------------------------------------------------
(* The clangd warm-up: initializeClangdLanguageServer *)

\* The entries of the workspace in walk order: files, directories, and
\* entries the walk cannot read.  The entries that follow a directory, up to
\* the next directory, are its contents.
File(ext) == [isDir |-> FALSE, base |-> "f", ext |-> ext, err |-> Nil]
Dir(base) == [isDir |-> TRUE, base |-> base, ext |-> "", err |-> Nil]
Unreadable == [isDir |-> FALSE, base |-> "f", ext |-> "", err |-> WalkErr]

EntryUniverse ==
    { File(".cpp"), File(".cc"), File(".h"), Dir("src"), Dir(".git"), Unreadable }

\* the path of the n-th entry of the walk
PathOf(n, entry) == "/ws/" \o Itoa(n) \o "/" \o entry.base \o entry.ext

\* clangd.go 83-86: the directories the walk does not descend into (hidden
\* ones and the build directories)
SkippedDir(base) == base \in {".git", "build", "cmake-build-debug"}

\* clangd.go 91: the extensions of the files collected
IsCppSource(entry) == entry.ext \in {".cpp", ".cxx", ".cc"}

\* clangd.go 76-100: the walk; cppFiles as collected, and the error of the
\* first unreadable entry visited if there is one.  `skipping`: the entry is
\* inside a directory for which the callback returned SkipDir, and is not
\* visited
RECURSIVE WalkFrom(_, _, _, _)
WalkFrom(entries, n, collected, skipping) ==
    IF n > Len(entries) THEN [err |-> Nil, cppFiles |-> collected]
    ELSE LET e == entries[n]
         IN IF e.isDir
            THEN WalkFrom(entries, n + 1, collected, SkippedDir(e.base))
            ELSE IF skipping THEN WalkFrom(entries, n + 1, collected, skipping)
            ELSE IF e.err # Nil THEN [err |-> e.err, cppFiles |-> collected]
            ELSE IF IsCppSource(e)
                 THEN WalkFrom(entries, n + 1, Append(collected, PathOf(n, e)),
                               skipping)
            ELSE WalkFrom(entries, n + 1, collected, skipping)

Walk(entries) == WalkFrom(entries, 1, <<>>, FALSE)

\* clangd.go 105
maxFilesToOpen == 3

\* a variant in which warmupClangdStaticIndex returns the error of the first
\* query
AfterQuery1ReturnsOnError(ok) == IF ok THEN "WarmSymbol2" ELSE "Walk"

\* clangd.go 44-52: where warmupClangdStaticIndex goes on after the first
\* query, whether or not it succeeded
AfterQuery1(ok) == "WarmSymbol2"

\* clangd.go 59-68 and 20-26: where the warm-up goes on after the second
\* query, whether or not it succeeded
AfterQuery2(ok) == "Walk"

\* clangd.go 36-49: the first priming query
WU_Symbol1 ==
    /\ op = "initializeClangdLanguageServer" /\ pc = "WarmSymbol1"
    /\ \E ok \in BOOLEAN :
          /\ calls' = Append(calls, Call("Symbol", "::", ok, 0, <<>>))
          /\ warnings' = IF ok THEN warnings ELSE warnings + 1
          /\ pc' = AfterQuery1(ok)
    /\ UNCHANGED <<op, ret, cppFiles, k, fileCount>>
    /\ UNCHANGED toolVars
    /\ UNCHANGED rangeVars

\* clangd.go 51-68 and 20-23: the second priming query; the step returns nil
WU_Symbol2 ==
    /\ op = "initializeClangdLanguageServer" /\ pc = "WarmSymbol2"
    /\ \E ok \in BOOLEAN :
          /\ calls' = Append(calls, Call("Symbol", "", ok, 0, <<>>))
          /\ warnings' = IF ok THEN warnings ELSE warnings + 1
          /\ pc' = AfterQuery2(ok)
    /\ UNCHANGED <<op, ret, cppFiles, k, fileCount>>
    /\ UNCHANGED toolVars
    /\ UNCHANGED rangeVars

\* a variant that returns the error of openCoreCppFiles
InitResultPropagates(openErr) == Ret("", openErr)

\* clangd.go 26-32: what initializeClangdLanguageServer returns, given the
\* error of openCoreCppFiles
InitResult(openErr) == Ret("", Nil)

\* clangd.go 71-105 and 26-33: the walk of the workspace; its failure ends
\* the step
WU_Walk ==
    /\ op = "initializeClangdLanguageServer" /\ pc = "Walk"
    /\ \E entries \in SeqsUpTo(EntryUniverse, MaxEntries) :
          LET w == Walk(entries)
          IN IF w.err # Nil
             THEN /\ warnings' = warnings + 1
                  /\ ret' = InitResult("error walking workspace directory: " \o w.err)
                  /\ pc' = "done"
                  /\ UNCHANGED <<cppFiles, k, fileCount>>
             ELSE /\ cppFiles' = w.cppFiles
                  /\ k' = 1
                  /\ fileCount' = 0
                  /\ pc' = "OpenLoop"
                  /\ UNCHANGED <<warnings, ret>>
    /\ UNCHANGED <<op, calls>>
    /\ UNCHANGED toolVars
    /\ UNCHANGED rangeVars

\* a variant that leaves the loop at the first OpenFile that fails
OpensNextUntilFailure(files, n, count) ==
    n <= Len(files) /\ ~(count >= maxFilesToOpen) /\ count = n - 1

\* a variant whose test of the cap is off by one
OpensNextOffByOne(files, n, count) == n <= Len(files) /\ ~(count > maxFilesToOpen)

\* clangd.go 107-110: the loop goes on to the file at index n
OpensNext(files, n, count) == n <= Len(files) /\ ~(count >= maxFilesToOpen)

\* clangd.go 107-122: one file is opened
WU_OpenFile ==
    /\ op = "initializeClangdLanguageServer" /\ pc = "OpenLoop"
    /\ OpensNext(cppFiles, k, fileCount)
    /\ \E ok \in BOOLEAN :
          /\ calls' = Append(calls, Call("OpenFile", cppFiles[k], ok, k, <<>>))
          /\ fileCount' = IF ok THEN fileCount + 1 ELSE fileCount
          /\ warnings' = IF ok THEN warnings ELSE warnings + 1
    /\ k' = k + 1
    /\ UNCHANGED <<op, pc, ret, cppFiles>>
    /\ UNCHANGED toolVars
    /\ UNCHANGED rangeVars

\* clangd.go 124-125 and 26-33: the loop is over; both functions return nil
WU_Return ==
    /\ op = "initializeClangdLanguageServer" /\ pc = "OpenLoop"
    /\ ~OpensNext(cppFiles, k, fileCount)
    /\ ret' = InitResult(Nil)
    /\ pc' = "done"
    /\ UNCHANGED <<op, calls, cppFiles, k, fileCount, warnings>>
    /\ UNCHANGED toolVars
    /\ UNCHANGED rangeVars

InitWU ==
    /\ op = "initializeClangdLanguageServer"
    /\ symbolName = ""
    /\ InitCommon("WarmSymbol1")
    /\ InitRangeVars

NextWU ==
    \/ WU_Symbol1
    \/ WU_Symbol2
    \/ WU_Walk
    \/ WU_OpenFile
    \/ WU_Return

SpecWU == InitWU /\ [][NextWU]_vars

-----------------------------------------------------------------------------
(* The display ranges of one file: GetLineRangesToDisplay followed by       *)
(* ConvertLinesToRanges, on their own                                       *)

\* the inputs: at most MaxPoints references, in any order and with
\* repetitions, on the lines of a file of at most MaxLines lines, and a
\* context width of at most MaxContext
RangeInputs ==
    { in \in [inRefs : SeqsUpTo({ Loc(UriA, l) : l \in 0..(MaxLines - 1) },
                                  MaxPoints),
              inTotalLines : 1..MaxLines,
              inContext : 0..MaxContext] :
        \A n \in 1..Len(in.inRefs) : in.inRefs[n].line < in.inTotalLines }

\* a variant that passes one line more than the file has
MR_RangesPastEnd ==
    /\ op = "GetLineRangesToDisplay" /\ pc = "Ranges"
    /\ outRanges' =
          GetLineRangesToDisplay(inRefs, inTotalLines + 1, inContext).ranges
    /\ pc' = "done"
    /\ UNCHANGED <<op, ret, calls, inRefs, inTotalLines, inContext>>
    /\ UNCHANGED toolVars
    /\ UNCHANGED warmVars

\* part_000 120-128: the two calls that turn the references of a file into
\* its display ranges
MR_Ranges ==
    /\ op = "GetLineRangesToDisplay" /\ pc = "Ranges"
    /\ outRanges' = GetLineRangesToDisplay(inRefs, inTotalLines, inContext).ranges
    /\ pc' = "done"
    /\ UNCHANGED <<op, ret, calls, inRefs, inTotalLines, inContext>>
    /\ UNCHANGED toolVars
    /\ UNCHANGED warmVars

InitRanges ==
    /\ op = "GetLineRangesToDisplay"
    /\ symbolName = ""
    /\ InitCommon("Ranges")
    /\ \E in \in RangeInputs :
          /\ inRefs = in.inRefs
          /\ inTotalLines = in.inTotalLines
          /\ inContext = in.inContext
    /\ outRanges = <<>>

NextRanges == MR_Ranges

SpecRanges == InitRanges /\ [][NextRanges]_vars

-----------------------------------------------------------------------------
(* The two tools together *)

Init == InitRD \/ InitFR

Next == NextRD \/ NextFR

Spec == Init /\ [][Next]_vars

-----------------------------------------------------------------------------
(* Properties *)

CallIds == 1..Len(calls)
MatchIds == 1..Len(results)
BlockIds == 1..Len(origin)

\* the OpenFile call of match n succeeded
OpenOk(n) ==
    \E c \in CallIds : calls[c].fn = "OpenFile" /\ calls[c].at = n /\ calls[c].ok

OpenFailed(n) ==
    \E c \in CallIds : calls[c].fn = "OpenFile" /\ calls[c].at = n /\ ~calls[c].ok

\* the symbol query succeeded and its result set was parsed
QueryParsed ==
    /\ pc \notin {"Symbol", "Results"}
    /\ calls # <<>> /\ calls[1].ok
    /\ ~symbolResult.malformed

\* C1: in FindReferences a failed References request ends the call at once:
\* the call has returned the empty string with a non-nil error, and the failed
\* request is the last backend call issued, whatever blocks were collected
\* before.
C1_ReferencesFailureAborts ==
    \A c \in CallIds :
        (op = "FindReferences" /\ calls[c].fn = "References" /\ ~calls[c].ok)
        => /\ pc = "done"
           /\ ret.str = ""
           /\ ret.err # Nil
           /\ c = Len(calls)
           /\ OpenOk(calls[c].at)

C1_Witness ==
    /\ op = "FindReferences" /\ pc = "done"
    /\ calls[Len(calls)].fn = "References" /\ ~calls[Len(calls)].ok
    /\ allReferences # <<>>
    /\ i = Len(results)

\* the blocks ReadDefinition is to return when only OpenFile calls fail: one
\* for every accepted match from n on whose file was opened
RECURSIVE DefinitionsOfOpened(_)
DefinitionsOfOpened(n) ==
    IF n > Len(results) THEN <<>>
    ELSE (IF OpenOk(n)
          THEN <<RD_Block(results[n], GetFullDefinition(results[n].loc))>>
          ELSE <<>>)
         \o DefinitionsOfOpened(n + 1)

\* the files named by a list of locations
UrisOf(rs) == { rs[n].uri : n \in 1..Len(rs) }

\* the call has returned and no backend call but OpenFile failed
OnlyOpenFileFailed ==
    /\ pc = "done"
    /\ QueryParsed
    /\ \A c \in CallIds : ~calls[c].ok => calls[c].fn = "OpenFile"

\* C2: when OpenFile fails for some matches and every other backend call
\* succeeds, ReadDefinition and FindReferences return no error and the output
\* holds the blocks of every match whose file was opened; a match whose
\* OpenFile failed contributes nothing.
C2_OpenFailureOnlySkipsItsMatch ==
    OnlyOpenFileFailed =>
        /\ ret.err = Nil
        /\ op = "ReadDefinition" =>
              /\ definitions = DefinitionsOfOpened(1)
              /\ definitions # <<>> => ret.str = JoinBlocks(definitions, "")
              /\ \A b \in BlockIds : OpenOk(origin[b].at)
        /\ op = "FindReferences" =>
              /\ \A n \in MatchIds :
                    /\ OpenOk(n) =>
                          \E c \in CallIds :
                              /\ calls[c].fn = "References" /\ calls[c].at = n
                              /\ \A u \in UrisOf(calls[c].res) :
                                    \E b \in BlockIds :
                                        /\ origin[b].at = n /\ origin[b].uri = u
                                        /\ allReferences[b][2] = TrimFilePrefix(u)
                    /\ ~OpenOk(n) => \A b \in BlockIds : origin[b].at # n
              /\ allReferences # <<>> => ret.str = JoinBlocks(allReferences, "\n")

C2_Witness ==
    /\ op = "ReadDefinition"
    /\ OnlyOpenFileFailed
    /\ Len(results) = 2
    /\ OpenFailed(1) /\ OpenOk(2)
    /\ Len(definitions) = 1
    /\ ret.str = Flat(definitions[1])

\* C3: ReadDefinition(q) returns "<q> not found" and a nil error whenever the
\* query and the parsing succeeded and no match yielded a definition: no
\* match at all, or every match discarded or skipped.
C3_NotFoundSentinel ==
    (/\ op = "ReadDefinition" /\ pc = "done"
     /\ QueryParsed
     /\ ~\E c \in CallIds : calls[c].fn = "GetFullDefinition" /\ calls[c].ok)
    => ret = Ret(symbolName \o " not found", Nil)

C3_Witness ==
    /\ op = "ReadDefinition" /\ pc = "done"
    /\ QueryParsed
    /\ Len(results) = 2
    /\ \E c \in CallIds : calls[c].fn = "OpenFile" /\ ~calls[c].ok
    /\ \E c \in CallIds : calls[c].fn = "GetFullDefinition" /\ ~calls[c].ok
    /\ ret = Ret(symbolName \o " not found", Nil)

\* the count printed in the header of a block of FindReferences
CountIn(block) == CHOOSE c \in 0..(MaxRefs + 1) : block[4] = Itoa(c)

\* the sum of the counts printed in the blocks of match n, from block b on
RECURSIVE SumCounts(_, _)
SumCounts(b, n) ==
    IF b > Len(origin) THEN 0
    ELSE (IF origin[b].at = n THEN CountIn(allReferences[b]) ELSE 0)
         + SumCounts(b + 1, n)

C5_FallbackShapeFilteredByName ==
    LET Unrelated(n) ==
            results[n].shape = "Other" /\ results[n].name # symbolName
    IN /\ \A c \in CallIds : calls[c].at > 0 => ~Unrelated(calls[c].at)
       /\ \A b \in BlockIds : ~Unrelated(origin[b].at)

\* C6: when the symbol query fails or its result set does not parse, the call
\* has returned the empty string with a non-nil error, and the symbol query
\* is the only backend call issued.
C6_QueryFailureAborts ==
    ((calls # <<>> /\ ~calls[1].ok) \/ (symbolResult.malformed /\ pc # "Results"))
    => /\ pc = "done"
       /\ ret.str = ""
       /\ ret.err # Nil
       /\ Len(calls) = 1
       /\ origin = <<>>

C6_Witness ==
    /\ op = "FindReferences" /\ pc = "done"
    /\ symbolResult.malformed
    /\ ret = FR_ParseFailed

\* C7: the warm-up always returns, and returns nil, whichever of the two
\* priming queries, the walk and the OpenFile calls fail.
C7_WarmupReturnsNil ==
    /\ pc = "done" => ret.err = Nil
    /\ pc # "done" => ENABLED NextWU

C7_Witness ==
    /\ op = "initializeClangdLanguageServer" /\ pc = "done"
    /\ Len(calls) = 2 /\ ~calls[1].ok /\ ~calls[2].ok
    /\ warnings = 3
    /\ ret.err = Nil

\* the calls of the warm-up are the two priming queries, in order, and then
\* OpenFile calls only
WarmupCallsInOrder ==
    /\ pc = "WarmSymbol1" => calls = <<>>
    /\ pc = "WarmSymbol2" => Len(calls) = 1
    /\ pc \in {"Walk", "OpenLoop", "done"} => Len(calls) >= 2
    /\ \A c \in CallIds :
          /\ c = 1 => calls[c].fn = "Symbol" /\ calls[c].arg = "::"
          /\ c = 2 => calls[c].fn = "Symbol" /\ calls[c].arg = ""
          /\ c > 2 => calls[c].fn = "OpenFile"

\* C8: the warm-up issues the query "::", then the query "", then its
\* OpenFile calls; the second query follows the first whether or not it
\* failed, and the warm-up only returns from the file-opening step, which is
\* entered whether or not the queries failed.
C8_WarmupOrder ==
    /\ []WarmupCallsInOrder
    /\ [][/\ pc = "WarmSymbol1" => pc' = "WarmSymbol2"
          /\ pc = "WarmSymbol2" => pc' = "Walk"
          /\ pc' = "done" => pc \in {"Walk", "OpenLoop"}]_vars

C8_Witness ==
    /\ op = "initializeClangdLanguageServer"
    /\ Len(calls) = 3
    /\ ~calls[1].ok /\ ~calls[2].ok
    /\ calls[3].fn = "OpenFile" /\ calls[3].ok

\* the OpenFile calls of the warm-up that succeeded
OpenedFiles == { c \in CallIds : calls[c].fn = "OpenFile" /\ calls[c].ok }

\* C9: the warm-up never opens more than 3 files.
C9_AtMostThreeOpened ==
    op = "initializeClangdLanguageServer"
    => Cardinality(OpenedFiles) <= 3 /\ fileCount = Cardinality(OpenedFiles)

C9_Witness ==
    /\ op = "initializeClangdLanguageServer" /\ pc = "done"
    /\ Cardinality(OpenedFiles) = 3
    /\ k <= Len(cppFiles)

\* the blocks built for file u of match n
BlocksOf(n, u) == { b \in BlockIds : origin[b].at = n /\ origin[b].uri = u }

\* no References request has failed
NoReferencesFailed ==
    \A c \in CallIds : calls[c].fn = "References" => calls[c].ok

\* every file of every match that is dealt with has exactly one block, and
\* the block of a file that could not be read is the header with the count
\* of its references followed by the error text
FilesAllHaveBlocks ==
    \A c \in CallIds :
        (calls[c].fn = "References" /\ calls[c].ok /\ calls[c].at < i)
        => \A u \in UrisOf(calls[c].res) :
              /\ Cardinality(BlocksOf(calls[c].at, u)) = 1
              /\ \A b \in BlocksOf(calls[c].at, u) :
                    ~origin[b].readOk
                    => allReferences[b] =
                         <<"---\n\n", TrimFilePrefix(u), "\nReferences in File: ",
                           Itoa(Len(SelectSeq(calls[c].res, LAMBDA r : r.uri = u))),
                           "\n", "\nError reading file: ", ReadErr>>

PassesFilter(n) == results[n].shape = "Other" => results[n].name = symbolName

\* the GetFullDefinition call of match n succeeded
GetDefOk(n) ==
    \E c \in CallIds :
        calls[c].fn = "GetFullDefinition" /\ calls[c].at = n /\ calls[c].ok

\* the blocks built for match n
BlocksAt(n) == { b \in BlockIds : origin[b].at = n }

\* C11: ReadDefinition builds exactly one block for every match that passes
\* the filter and whose OpenFile and GetFullDefinition both succeeded, and
\* none for any other match; the blocks stand in the order of the matches
\* they were built for, each is the block of its match and starts with the
\* "---" banner, and the text returned is these blocks in that order.
C11_OneBlockPerDefinitionInOrder ==
    op = "ReadDefinition" =>
        /\ Len(definitions) = Len(origin)
        /\ \A b \in BlockIds :
              /\ definitions[b][1] = "---\n\n"
              /\ definitions[b][2] = "Symbol: " \o results[origin[b].at].name \o "\n"
              /\ definitions[b][3] =
                    "File: " \o TrimFilePrefix(results[origin[b].at].loc.uri) \o "\n"
              /\ \A b2 \in BlockIds : b < b2 => origin[b].at < origin[b2].at
        /\ \A n \in MatchIds :
              n < i => Cardinality(BlocksAt(n)) =
                          IF PassesFilter(n) /\ OpenOk(n) /\ GetDefOk(n)
                          THEN 1 ELSE 0
        /\ (pc = "done" /\ definitions # <<>>)
              => ret.str = JoinBlocks(definitions, "")

C11_Witness ==
    /\ op = "ReadDefinition" /\ pc = "done"
    /\ Len(results) = 2
    /\ Len(definitions) = 2
    /\ origin[1].at = 1 /\ origin[2].at = 2
    /\ definitions[1][3] # definitions[2][3]
    /\ ret.str = Flat(definitions[1]) \o Flat(definitions[2])

\* the order of Go's string comparison on the URIs of the model
LexLess(u, v) == u = UriA /\ v = UriB

\* C12: in FindReferences every file of a match has at most one block, the
\* blocks of one match stand in strictly ascending order of their URIs
\* whatever order the backend listed the locations in, and the blocks of
\* different matches stand in the order of the matches.
C12_BlocksByMatchThenUri ==
    op = "FindReferences" =>
        /\ Len(allReferences) = Len(origin)
        /\ \A b \in BlockIds :
              allReferences[b][2] = TrimFilePrefix(origin[b].uri)
        /\ \A n \in MatchIds : \A u \in URIs : Cardinality(BlocksOf(n, u)) <= 1
        /\ \A b, b2 \in BlockIds :
              b < b2 =>
                 /\ origin[b].at <= origin[b2].at
                 /\ origin[b].at = origin[b2].at
                       => LexLess(origin[b].uri, origin[b2].uri)

C12_Witness ==
    /\ op = "FindReferences" /\ pc = "Loop"
    /\ i = 3
    /\ Len(origin) = 3
    /\ origin[1].at = 1 /\ origin[1].uri = UriB
    /\ origin[2].at = 2 /\ origin[2].uri = UriA
    /\ origin[3].at = 2 /\ origin[3].uri = UriB
    /\ allReferences[2][2] = "/a.cpp" /\ allReferences[3][2] = "/b.cpp"

\* the calls of function fn issued for match n
CallsOf(fn, n) == { c \in CallIds : calls[c].fn = fn /\ calls[c].at = n }

\* C13: no backend call is retried.  The symbol query is issued once; for a
\* match OpenFile is issued at most once and GetFullDefinition (References in
\* FindReferences) at most once; a failed symbol query or References request
\* is the last call and the invocation has returned an error; after a failed
\* OpenFile or GetFullDefinition the loop has left the match, for which no
\* further call is issued and no block is built.
C13_NoRetry ==
    /\ Cardinality({ c \in CallIds : calls[c].fn = "Symbol" })
          = IF pc = "Symbol" THEN 0 ELSE 1
    /\ \A n \in MatchIds :
          /\ Cardinality(CallsOf("OpenFile", n)) <= 1
          /\ Cardinality(CallsOf("GetFullDefinition", n)) <= 1
          /\ Cardinality(CallsOf("References", n)) <= 1
    /\ \A c \in CallIds :
          ~calls[c].ok =>
             IF calls[c].fn \in {"Symbol", "References"}
             THEN /\ c = Len(calls)
                  /\ pc = "done"
                  /\ ret.err # Nil
             ELSE /\ i > calls[c].at
                  /\ \A d \in CallIds : d > c => calls[d].at > calls[c].at
                  /\ BlocksAt(calls[c].at) = {}

C13_Witness ==
    /\ op = "ReadDefinition" /\ pc = "done"
    /\ Len(calls) = 4
    /\ calls[2].fn = "OpenFile" /\ calls[2].at = 1 /\ ~calls[2].ok
    /\ calls[3].fn = "OpenFile" /\ calls[3].at = 2 /\ calls[3].ok
    /\ calls[4].fn = "GetFullDefinition" /\ calls[4].at = 2 /\ ~calls[4].ok
    /\ ret.err = Nil

\* C14: FindReferences(q) returns "No references found for symbol: <q>" and
\* a nil error whenever the query and the parsing succeeded, no References
\* request failed and no block was built: no match at all, every match
\* skipped after a failed OpenFile, or every References request answered
\* with no location.
C14_NoReferencesSentinel ==
    (/\ op = "FindReferences" /\ pc = "done"
     /\ QueryParsed
     /\ NoReferencesFailed
     /\ allReferences = <<>>)
    => ret = Ret("No references found for symbol: " \o symbolName, Nil)

C14_Witness ==
    /\ op = "FindReferences" /\ pc = "done"
    /\ QueryParsed
    /\ Len(results) = 2
    /\ OpenFailed(1)
    /\ \E c \in CallIds :
          /\ calls[c].fn = "References" /\ calls[c].at = 2
          /\ calls[c].ok /\ calls[c].res = <<>>
    /\ allReferences = <<>>
    /\ ret = Ret("No references found for symbol: " \o symbolName, Nil)

\* C15: the display ranges of a file lie within [1, totalLines], each one
\* ends before the next one starts (so they are sorted by start line and do
\* not overlap), and every reference line L lies in a range that contains
\* the whole of [max(1, L - context), min(totalLines, L + context)].
C15_RangesSortedDisjointClampedCovering ==
    (op = "GetLineRangesToDisplay" /\ pc = "done") =>
        /\ \A n \in 1..Len(outRanges) :
              /\ 1 <= outRanges[n].startLine
              /\ outRanges[n].startLine <= outRanges[n].endLine
              /\ outRanges[n].endLine <= inTotalLines
        /\ \A n \in 1..(Len(outRanges) - 1) :
              outRanges[n].endLine < outRanges[n + 1].startLine
        /\ \A p \in 1..Len(inRefs) :
              LET L == inRefs[p].line + 1
                  lo == IF L - inContext < 1 THEN 1 ELSE L - inContext
                  hi == IF L + inContext > inTotalLines THEN inTotalLines
                        ELSE L + inContext
              IN \E n \in 1..Len(outRanges) :
                    /\ outRanges[n].startLine <= lo
                    /\ hi <= outRanges[n].endLine

C15_Witness ==
    /\ op = "GetLineRangesToDisplay" /\ pc = "done"
    /\ inContext = 1
    /\ Len(inRefs) = 3
    /\ inRefs[1].line + 1 = inTotalLines
    /\ inRefs[2].line = 0
    /\ outRanges = <<[startLine |-> 1, endLine |-> 2],
                      [startLine |-> inTotalLines - 1, endLine |-> inTotalLines]>>

\* the lines of a list of references
LinesOf(rs) == { rs[n].line : n \in 1..Len(rs) }

\* the references on the lines of S, one for each line, in ascending order
RECURSIVE Ascending(_)
Ascending(S) ==
    IF S = {} THEN <<>>
    ELSE LET least == CHOOSE x \in S : \A y \in S : x <= y
         IN <<Loc(UriA, least)>> \o Ascending(S \ {least})

\* C16: the display ranges of a file are those of the sorted list, free of
\* duplicates, of the lines of its references, whatever the order and the
\* repetitions among the references given.
C16_RangesDependOnLineSetOnly ==
    (op = "GetLineRangesToDisplay" /\ pc = "done") =>
        outRanges =
            GetLineRangesToDisplay(Ascending(LinesOf(inRefs)),
                                   inTotalLines, inContext).ranges

C16_Witness ==
    /\ op = "GetLineRangesToDisplay" /\ pc = "done"
    /\ Len(inRefs) = 3
    /\ inRefs[1].line > inRefs[2].line
    /\ inRefs[3] = inRefs[1]
    /\ Len(outRanges) = 2
    /\ outRanges[1].endLine >= inRefs[2].line + 1
    /\ outRanges[2].startLine <= inRefs[1].line + 1

\* C17: a References request (FindReferences) and a GetFullDefinition
\* request (ReadDefinition) directly follow a successful OpenFile of the file
\* of the same match, and none is issued for a match whose OpenFile failed;
\* a References request names the file and the start position of the match
\* and has includeDeclaration = false.
C17_RequestsFollowSuccessfulOpen ==
    \A c \in CallIds :
        calls[c].fn \in {"References", "GetFullDefinition"} =>
           LET n == calls[c].at
           IN /\ n \in MatchIds
              /\ c > 1
              /\ calls[c - 1].fn = "OpenFile"
              /\ calls[c - 1].ok
              /\ calls[c - 1].at = n
              /\ calls[c - 1].arg = TrimFilePrefix(results[n].loc.uri)
              /\ ~OpenFailed(n)
              /\ calls[c].fn = "References" =>
                    /\ op = "FindReferences"
                    /\ calls[c].arg.includeDeclaration = FALSE
                    /\ calls[c].arg.uri = results[n].loc.uri
                    /\ calls[c].arg.position =
                          [line |-> results[n].loc.line,
                           character |-> results[n].loc.character]
              /\ calls[c].fn = "GetFullDefinition" =>
                    /\ op = "ReadDefinition"
                    /\ calls[c].arg = results[n].loc

C17_Witness ==
    /\ op = "FindReferences"
    /\ Len(calls) = 4
    /\ calls[2].fn = "OpenFile" /\ calls[2].at = 1 /\ ~calls[2].ok
    /\ calls[3].fn = "OpenFile" /\ calls[3].at = 2 /\ calls[3].ok
    /\ calls[4].fn = "References" /\ calls[4].at = 2
    /\ calls[4].arg.position.line = 1
    /\ calls[4].arg.includeDeclaration = FALSE

\* the GetFullDefinition calls that succeeded
DefinitionsFetched ==
    { c \in CallIds : calls[c].fn = "GetFullDefinition" /\ calls[c].ok }

\* C18: once the symbol query and the parsing have succeeded ReadDefinition
\* returns no error.  A failed GetFullDefinition adds nothing to the output,
\* not even a header: there are as many blocks as successful
\* GetFullDefinition calls and none for the match of a failed one; the loop
\* goes on to the matches after it, and the call returns a nil error.
C18_DefinitionFailureIsNotAnError ==
    (op = "ReadDefinition" /\ QueryParsed) =>
        /\ Len(definitions) = Cardinality(DefinitionsFetched)
        /\ \A c \in CallIds :
              (calls[c].fn = "GetFullDefinition" /\ ~calls[c].ok) =>
                 /\ BlocksAt(calls[c].at) = {}
                 /\ pc = "done" =>
                       \A n \in MatchIds :
                           (n > calls[c].at /\ PassesFilter(n))
                           => OpenOk(n) \/ OpenFailed(n)
        /\ pc = "done" =>
              /\ ret.err = Nil
              /\ ret.str = IF DefinitionsFetched = {}
                           THEN symbolName \o " not found"
                           ELSE JoinBlocks(definitions, "")
        /\ pc # "done" => ret = NotReturned

C18_Witness ==
    /\ op = "ReadDefinition" /\ pc = "done"
    /\ Len(calls) = 5
    /\ calls[3].fn = "GetFullDefinition" /\ calls[3].at = 1 /\ ~calls[3].ok
    /\ calls[5].fn = "GetFullDefinition" /\ calls[5].at = 2 /\ calls[5].ok
    /\ Len(definitions) = 1
    /\ ret = Ret(Flat(definitions[1]), Nil)

\* the OpenFile calls of the warm-up
OpenCalls == { c \in CallIds : calls[c].fn = "OpenFile" }

\* the walk of the workspace failed: a warning was written that no failed
\* call accounts for
WalkFailed == warnings > Cardinality({ c \in CallIds : ~calls[c].ok })

\* C19: the warm-up attempts OpenFile on the collected files in collection
\* order, each once; a failed OpenFile neither counts nor ends the step: the
\* step only ends when 3 opens have succeeded or every collected file has
\* been attempted, and no OpenFile is attempted once 3 have succeeded; when
\* the walk fails no OpenFile is attempted.
C19_OpensUntilThreeSucceeded ==
    op = "initializeClangdLanguageServer" =>
        /\ \A c \in OpenCalls :
              /\ c > 2
              /\ c - 2 <= Len(cppFiles)
              /\ calls[c].arg = cppFiles[c - 2]
              /\ Cardinality({ d \in OpenedFiles : d < c }) < 3
        /\ (pc = "done" /\ ~WalkFailed) =>
              \/ Cardinality(OpenedFiles) = 3
              \/ Cardinality(OpenCalls) = Len(cppFiles)
        /\ WalkFailed => pc = "done" /\ OpenCalls = {}

C19_Witness ==
    /\ op = "initializeClangdLanguageServer" /\ pc = "done"
    /\ Len(cppFiles) = 4
    /\ Len(calls) = 6
    /\ ~calls[3].ok
    /\ calls[4].ok /\ calls[5].ok /\ calls[6].ok
    /\ calls[6].arg = cppFiles[4]

\* the steps one match can take at most: its OpenFile, its request, one step
\* for each of its files, and the step to the next match
PerMatch == Cardinality(URIs) + 3

\* a bound on the number of steps the invocation has yet to take
StepsLeft ==
    CASE pc = "done" -> 0
      [] pc = "Symbol" -> (MaxMatches + 1) * PerMatch + 3
      [] pc = "Results" -> (MaxMatches + 1) * PerMatch + 2
      [] pc = "Loop" -> (Len(results) - i + 1) * PerMatch + 1
      [] pc \in {"GetFullDefinition", "References"} ->
            (Len(results) - i + 1) * PerMatch
      [] pc = "File" -> (Len(results) - i + 1) * PerMatch - j

\* the invocation has returned one of: an error with the empty string, the
\* sentinel for no result, or the join of a non-empty list of blocks
OneOutcome ==
    LET blocks == IF op = "ReadDefinition" THEN definitions ELSE allReferences
        sep == IF op = "ReadDefinition" THEN "" ELSE "\n"
        sentinel == IF op = "ReadDefinition"
                    THEN symbolName \o " not found"
                    ELSE "No references found for symbol: " \o symbolName
        isError == ret.err # Nil /\ ret.str = ""
        isSentinel == ret.err = Nil /\ ret.str = sentinel /\ blocks = <<>>
        isReport == /\ ret.err = Nil /\ blocks # <<>>
                    /\ ret.str = JoinBlocks(blocks, sep)
                    /\ ret.str # "" /\ ret.str # sentinel
    IN /\ ret # NotReturned
       /\ isError \/ isSentinel \/ isReport
       /\ ~(isError /\ isSentinel) /\ ~(isError /\ isReport)
       /\ ~(isSentinel /\ isReport)

\* C20: every invocation of ReadDefinition and of FindReferences ends.  As
\* long as it has not returned it can take a step, every step issues at most
\* one backend call, which has returned when the step is over, and lowers a
\* bound on the steps left; the index into the matches never goes back and
\* moves on one match at a time, as does the index into the files of a match;
\* once returned, the invocation has exactly one of the three outcomes and
\* takes no further step.
C20_SinglePassThenOneOutcome ==
    /\ [](StepsLeft \in Nat)
    /\ [](pc # "done" => ENABLED Next)
    /\ [](pc = "done" => OneOutcome /\ ~ENABLED Next)
    /\ [][/\ StepsLeft' < StepsLeft
          /\ Len(calls') \in {Len(calls), Len(calls) + 1}
          /\ i' \in {i, i + 1}
          /\ (pc = "File" /\ pc' = "File") => (i' = i /\ j' = j + 1)]_vars

C20_Witness ==
    /\ op = "FindReferences" /\ pc = "done"
    /\ i = 3
    /\ Len(calls) = 5
    /\ Len(allReferences) = 4
    /\ StepsLeft = 0
    /\ ret = Ret(JoinBlocks(allReferences, "\n"), Nil)

====
